---- MODULE Spec2Model ----
(***************************************************************************)
(* Model of the financial utility functions of src/src/index.ts.           *)
(*                                                                         *)
(* Every function of the library is a pure computation over JavaScript     *)
(* Numbers that ends in Number.prototype.toFixed(2).  A Number is modelled *)
(* as a binary floating-point value with a Prec-bit significand, rounded   *)
(* to nearest (ties to even) after every arithmetic operation, with the    *)
(* non-finite values Infinity, -Infinity and NaN.  The exponent range is   *)
(* not limited (no overflow or underflow), and zero carries no sign.       *)
(* A string is a sequence of one-character strings.                        *)
(***************************************************************************)
EXTENDS Integers, Sequences, FiniteSets, Bags, TLC

\* Significand width of the modelled floating-point format (binary64: 53).
Prec == 14

\* Largest duration in years a caller passes.
MaxYears == 3

\* Largest duration in months a caller of the SIP functions passes.
MaxMonths == 3

\* Largest number of records in a caller's debt list.
MaxDebts == 3

-----------------------------------------------------------------------------
(* JavaScript Number *)

NaN == [k |-> "nan", s |-> 1, m |-> 0, e |-> 0]

Infinity == [k |-> "inf", s |-> 1, m |-> 0, e |-> 0]

NegInfinity == [k |-> "inf", s |-> -1, m |-> 0, e |-> 0]

Zero == [k |-> "fin", s |-> 1, m |-> 0, e |-> 0]

\* The value s * m * 2^e; m = 0 is zero, otherwise 2^(Prec-1) <= m < 2^Prec.
Fin(s, m, e) == [k |-> "fin", s |-> s, m |-> m, e |-> e]

Inf(s) == IF s = 1 THEN Infinity ELSE NegInfinity

IsNaN(x) == x.k = "nan"

IsInf(x) == x.k = "inf"

IsFinite(x) == x.k = "fin"

IsZero(x) == x.k = "fin" /\ x.m = 0

\* An operation is its ...To, Product, Quotient, Sum, Smaller or Fixed2 applied
\* to the values of its operands, each operand evaluated once: TLC works out an
\* operator's argument anew each time the operator reads it, and a bound
\* variable once.

RECURSIVE BitLen(_)
BitLen(n) == IF n = 0 THEN 0 ELSE 1 + BitLen(n \div 2)

\* Round the exact magnitude M * 2^E (plus, when sticky, a positive amount
\* below one unit of M) to Prec bits, nearest, ties to even.
RoundTo(s, M, E, sticky) ==
    IF M = 0 THEN Zero
    ELSE LET L == BitLen(M) IN
         IF L <= Prec
         THEN Fin(s, M * 2^(Prec - L), E - (Prec - L))
         ELSE LET sh == L - Prec
                  q == M \div 2^sh
                  rem == M % 2^sh
                  half == 2^(sh - 1)
                  up == rem > half \/ (rem = half /\ (sticky \/ q % 2 = 1))
                  q2 == IF up THEN q + 1 ELSE q
              IN IF q2 = 2^Prec
                 THEN Fin(s, 2^(Prec - 1), E + sh + 1)
                 ELSE Fin(s, q2, E + sh)

Round(s, M, E, sticky) ==
    CHOOSE r \in {RoundTo(s, mag, ex, sticky) : mag \in {M}, ex \in {E}} : TRUE

\* n / d * 2^E for integers n >= 0, d > 0, correctly rounded.
RatRoundTo(s, n, d, E) ==
    IF n = 0 THEN Zero
    ELSE LET want == Prec + 1 + BitLen(d) - BitLen(n)
             sc == IF want > 0 THEN want ELSE 0
             num == n * 2^sc
         IN Round(s, num \div d, E - sc, num % d # 0)

RatRound(s, n, d, E) ==
    CHOOSE r \in {RatRoundTo(s, num, den, E) : num \in {n}, den \in {d}} : TRUE

Neg(x) == IF x.k = "nan" THEN x ELSE [x EXCEPT !.s = IF IsZero(x) THEN 1 ELSE -x.s]

Abs(x) == IF x.k = "nan" THEN x ELSE [x EXCEPT !.s = 1]

\* a * b
Product(a, b) ==
    IF IsNaN(a) \/ IsNaN(b) THEN NaN
    ELSE IF IsInf(a) \/ IsInf(b)
         THEN IF IsZero(a) \/ IsZero(b) THEN NaN ELSE Inf(a.s * b.s)
         ELSE Round(a.s * b.s, a.m * b.m, a.e + b.e, FALSE)

Mul(a, b) == CHOOSE r \in {Product(x, y) : x \in {a}, y \in {b}} : TRUE

\* a / b
Quotient(a, b) ==
    IF IsNaN(a) \/ IsNaN(b) THEN NaN
    ELSE IF IsInf(a) THEN (IF IsInf(b) THEN NaN ELSE Inf(a.s * b.s))
    ELSE IF IsInf(b) THEN Zero
    ELSE IF IsZero(b) THEN (IF IsZero(a) THEN NaN ELSE Inf(a.s * b.s))
    ELSE RatRound(a.s * b.s, a.m, b.m, a.e - b.e)

Div(a, b) == CHOOSE r \in {Quotient(x, y) : x \in {a}, y \in {b}} : TRUE

\* a + b for finite non-zero a, b with a.e >= b.e
AddOrdered(a, b) ==
    LET d == a.e - b.e IN
    IF d > Prec + 1
    THEN IF a.s = b.s
         THEN Round(a.s, a.m * 4, a.e - 2, TRUE)
         ELSE Round(a.s, a.m * 4 - 1, a.e - 2, TRUE)
    ELSE LET sum == a.s * a.m * 2^d + b.s * b.m IN
         IF sum >= 0 THEN Round(1, sum, b.e, FALSE)
         ELSE Round(-1, -sum, b.e, FALSE)

\* a + b
Sum(a, b) ==
    IF IsNaN(a) \/ IsNaN(b) THEN NaN
    ELSE IF IsInf(a) THEN (IF IsInf(b) /\ a.s # b.s THEN NaN ELSE a)
    ELSE IF IsInf(b) THEN b
    ELSE IF IsZero(a) THEN b
    ELSE IF IsZero(b) THEN a
    ELSE IF a.e >= b.e THEN AddOrdered(a, b) ELSE AddOrdered(b, a)

Add(a, b) == CHOOSE r \in {Sum(x, y) : x \in {a}, y \in {b}} : TRUE

\* a - b
Sub(a, b) == CHOOSE r \in {Sum(x, Neg(y)) : x \in {a}, y \in {b}} : TRUE

\* a < b (false when either is NaN)
Smaller(a, b) ==
    IF IsNaN(a) \/ IsNaN(b) THEN FALSE
    ELSE IF IsInf(a) /\ IsInf(b) THEN a.s < b.s
    ELSE LET d == Sum(a, Neg(b)) IN d.s = -1 /\ ~IsZero(d)

Less(a, b) == CHOOSE r \in {Smaller(x, y) : x \in {a}, y \in {b}} : TRUE

\* a <= b
LessEq(a, b) == ~IsNaN(a) /\ ~IsNaN(b) /\ ~Less(b, a)

\* The Number an integer literal denotes.
FromInt(n) == IF n >= 0 THEN Round(1, n, 0, FALSE) ELSE Round(-1, -n, 0, FALSE)

\* The Number a decimal literal n/d denotes (0.08 is Lit(8, 100)).
Lit(n, d) == IF n >= 0 THEN RatRound(1, n, d, 0) ELSE RatRound(-1, -n, d, 0)

\* The integer value of an integral Number.
IntVal(x) == IF x.e >= 0 THEN x.s * x.m * 2^(x.e) ELSE x.s * (x.m \div 2^(-x.e))

IsNatural(x) == IsFinite(x) /\ x.s = 1 /\ (x.e >= 0 \/ x.m % 2^(-x.e) = 0)

\* b^n by squaring, each product rounded.
RECURSIVE PowN(_, _)
PowN(b, n) ==
    IF n = 0 THEN FromInt(1)
    ELSE IF n % 2 = 0 THEN CHOOSE r \in {Product(h, h) : h \in {PowN(b, n \div 2)}} : TRUE
    ELSE Mul(PowN(b, n - 1), b)

\* Math.pow(base, exponent) for an exponent that is a natural number: the
\* language leaves the result an approximation of the power.
Pow(base, exponent) ==
    CHOOSE r \in {PowN(b, n) : b \in {base}, n \in {IntVal(exponent)}} : TRUE

-----------------------------------------------------------------------------
(* Number.prototype.toFixed(2) and the Number a string denotes *)

DigitChars == <<"0", "1", "2", "3", "4", "5", "6", "7", "8", "9">>

StrNaN == <<"N", "a", "N">>

StrInfinity == <<"I", "n", "f", "i", "n", "i", "t", "y">>

StrNegInfinity == <<"-">> \o StrInfinity

RECURSIVE DecDigits(_)
DecDigits(n) ==
    IF n < 10 THEN <<DigitChars[n + 1]>>
    ELSE Append(DecDigits(n \div 10), DigitChars[(n % 10) + 1])

\* The integer n for which n / 100 - |x| is as close to zero as possible,
\* the larger n when there are two.
Hundredths(x) ==
    IF x.e >= 0 THEN x.m * 100 * 2^(x.e)
    ELSE LET sh == -x.e IN
         IF sh > 30 THEN 0
         ELSE LET q == (x.m * 100) \div 2^sh
                  rem == (x.m * 100) % 2^sh
              IN IF 2 * rem >= 2^sh THEN q + 1 ELSE q

\* x.toFixed(2)
Fixed2(x) ==
    IF IsNaN(x) THEN StrNaN
    ELSE IF IsInf(x) THEN (IF x.s = 1 THEN StrInfinity ELSE StrNegInfinity)
    ELSE LET n == Hundredths(x)
             sign == IF x.s = -1 THEN <<"-">> ELSE <<>>
         IN sign \o DecDigits(n \div 100) \o <<".">>
                 \o <<DigitChars[((n \div 10) % 10) + 1], DigitChars[(n % 10) + 1]>>

ToFixed2(x) == CHOOSE r \in {Fixed2(v) : v \in {x}} : TRUE

DigitOf(c) == CHOOSE d \in 0..9 : DigitChars[d + 1] = c

IsDigit(c) == \E d \in 0..9 : DigitChars[d + 1] = c

\* The digits of str read as a decimal integer, other characters skipped.
RECURSIVE DigitsValue(_)
DigitsValue(str) ==
    IF str = <<>> THEN 0
    ELSE LET front == SubSeq(str, 1, Len(str) - 1)
             c == str[Len(str)]
         IN IF IsDigit(c) THEN 10 * DigitsValue(front) + DigitOf(c)
            ELSE DigitsValue(front)

\* Number(str) for a string that toFixed(2) produced.
ToNumber(str) ==
    IF str = StrNaN THEN NaN
    ELSE IF str = StrInfinity THEN Infinity
    ELSE IF str = StrNegInfinity THEN NegInfinity
    ELSE IF str[1] = "-" THEN RatRound(-1, DigitsValue(str), 100, 0)
    ELSE RatRound(1, DigitsValue(str), 100, 0)

-----------------------------------------------------------------------------
(* The calculators of index.ts *)

\* An argument the caller left out.
Undefined == [k |-> "undefined"]

\* A parameter with a default value: the default stands in for undefined.
DefaultArg(v, dflt) == IF v = Undefined THEN dflt ELSE v

One == FromInt(1)

Twelve == FromInt(12)

Hundred == FromInt(100)

\* The default of the inflationRate parameters, 0.06.
DefaultInflation == Lit(6, 100)

calculateDTI(totalMonthlyDebtPayments, totalMonthlyIncome) ==
    ToFixed2(Mul(Div(totalMonthlyDebtPayments, totalMonthlyIncome), Hundred))

\* principal * r * (1 + r)^n / ((1 + r)^n - 1)
emiFormula(principal, monthlyInterestRate, totalMonths) ==
    LET growth == Pow(Add(One, monthlyInterestRate), totalMonths)
    IN Div(Mul(Mul(principal, monthlyInterestRate), growth), Sub(growth, One))

\* An EMI that falls back to the straight-line payment P/n at a zero rate.
calculateEMIStraightLine(principal, annualInterestRate, tenureInYears) ==
    LET monthlyInterestRate == Div(Div(annualInterestRate, Twelve), Hundred)
        totalMonths == Mul(tenureInYears, Twelve)
    IN IF IsZero(monthlyInterestRate)
       THEN ToFixed2(Div(principal, totalMonths))
       ELSE ToFixed2(emiFormula(principal, monthlyInterestRate, totalMonths))

calculateEMI(principal, annualInterestRate, tenureInYears) ==
    LET monthlyInterestRate == Div(Div(annualInterestRate, Twelve), Hundred)
        totalMonths == Mul(tenureInYears, Twelve)
        emi == emiFormula(principal, monthlyInterestRate, totalMonths)
    IN ToFixed2(emi)

lumpSumReturns(principalAmount, durationInYears, expectedRoi) ==
    LET totalAmount == Mul(principalAmount, Pow(Add(One, expectedRoi), durationInYears))
    IN ToFixed2(totalAmount)

lumpSumReturnsWithInflation(principalAmount, durationInYears, expectedRoi, inflationArg) ==
    LET inflationRate == DefaultArg(inflationArg, DefaultInflation)
        totalAmount == Mul(principalAmount,
                           Pow(Sub(Add(One, expectedRoi), inflationRate), durationInYears))
    IN ToFixed2(totalAmount)

futureValueWithoutInflation(principalAmount, durationInYears, expectedRoi) ==
    LET totalAmount == Mul(principalAmount, Pow(Add(One, expectedRoi), durationInYears))
    IN ToFixed2(totalAmount)

\* A future value that deflates the growth factor: (1 + roi) / (1 + inflation).
futureValueDeflated(principalAmount, durationInYears, expectedRoi, inflationArg) ==
    LET inflationRate == DefaultArg(inflationArg, DefaultInflation)
        totalAmount == Mul(principalAmount,
                           Pow(Div(Add(One, expectedRoi), Add(One, inflationRate)),
                               durationInYears))
    IN ToFixed2(totalAmount)

futureValueWithInflation(principalAmount, durationInYears, expectedRoi, inflationArg) ==
    LET inflationRate == DefaultArg(inflationArg, DefaultInflation)
        totalAmount == Mul(principalAmount,
                           Pow(Sub(Add(One, expectedRoi), inflationRate), durationInYears))
    IN ToFixed2(totalAmount)

\* A present value that discounts by simple interest: 1 + roi * years.
presentValueSimpleInterest(futureAmount, durationInYears, expectedRoi) ==
    LET presentValue == Div(futureAmount, Add(One, Mul(expectedRoi, durationInYears)))
    IN ToFixed2(presentValue)

presentValueWithoutInflation(futureAmount, durationInYears, expectedRoi) ==
    LET presentValue == Div(futureAmount, Pow(Add(One, expectedRoi), durationInYears))
    IN ToFixed2(presentValue)

presentValueWithInflation(futureAmount, durationInYears, expectedRoi, inflationArg) ==
    LET inflationRate == DefaultArg(inflationArg, DefaultInflation)
        presentValue == Div(futureAmount,
                            Pow(Sub(Add(One, expectedRoi), inflationRate), durationInYears))
    IN ToFixed2(presentValue)

retirementSavingsGoal(monthlyExpenses, yearsUntilRetirement, annualReturnRate, currentSavings) ==
    LET months == Mul(yearsUntilRetirement, Twelve)
        monthlyReturnRate == Div(Div(annualReturnRate, Twelve), Hundred)
        futureValue == Mul(Mul(monthlyExpenses,
                               Div(Sub(Pow(Add(One, monthlyReturnRate), months), One),
                                   monthlyReturnRate)),
                           Add(One, monthlyReturnRate))
        additionalSavingsNeeded == Sub(futureValue, currentSavings)
    IN ToFixed2(additionalSavingsNeeded)

\* A withdrawal rate that spreads the savings over the years of retirement.
safeWithdrawalRateOverYears(retirementSavings, retirementYears, annualExpenses) ==
    LET withdrawalRate == Div(annualExpenses, Div(retirementSavings, retirementYears))
        safeRate == Mul(withdrawalRate, Hundred)
    IN ToFixed2(safeRate)

safeWithdrawalRate(retirementSavings, retirementYears, annualExpenses) ==
    LET withdrawalRate == Div(annualExpenses, retirementSavings)
        safeRate == Mul(withdrawalRate, Hundred)
    IN ToFixed2(safeRate)

-----------------------------------------------------------------------------
(* State *)

VARIABLES
    fn,          \* the calculator called last, "none" before the first call
    args,        \* the arguments of that call
    res,         \* the string it returned
    origin,      \* the arguments of the call whose result was passed on as args[1]
    arrays,      \* the heap: array reference -> sequence of Debt records
    debts,       \* the reference the caller holds
    returned,    \* the reference the last ordering call returned, 0 before
    sorter,      \* the ordering function called last
    before,      \* the caller's sequence as it was when that call was made
    pc,          \* position of the SIP call: "idle", "loop" or "done"
    i,           \* its loop counter
    totalAmount, \* its running total
    sipFn,       \* the SIP function running
    sipArgs,     \* its arguments
    sipRes       \* the string it returned

tvmVars == <<fn, args, res, origin>>

debtVars == <<arrays, debts, returned, sorter, before>>

sipVars == <<pc, i, totalAmount, sipFn, sipArgs, sipRes>>

vars == <<fn, args, res, origin, arrays, debts, returned, sorter, before,
          pc, i, totalAmount, sipFn, sipArgs, sipRes>>

-----------------------------------------------------------------------------
(* Callers of the calculators *)

\* Amounts of money a caller passes.
Amounts == {Lit(0, 1), Lit(1, 2), Lit(1, 1), Lit(201, 200), Lit(5, 4), Lit(2, 1),
            Lit(5, 2), Lit(3, 1)}

\* Annual rates given as fractions.
Rates == {Lit(-1, 2), Lit(0, 1), Lit(3, 100), Lit(5, 100), Lit(8, 100), Lit(1, 10),
          Lit(1, 4), Lit(1, 1)}

\* Inflation rates, or none given.
Inflations == {Undefined, Lit(3, 100), Lit(6, 100), Lit(8, 100)}

\* Annual rates given as percentages.
PercentRates == {Lit(0, 1), Lit(6, 1), Lit(10, 1), Lit(12, 1)}

\* Durations in whole years.
Years == {FromInt(n) : n \in 0..MaxYears}

\* Monthly payments, incomes, savings and expenses.
Payments == {Lit(-2, 1), Lit(0, 1), Lit(1, 1), Lit(1500, 1), Lit(40000, 1)}

Incomes == {Lit(0, 1), Lit(4, 1), Lit(5000, 1), Lit(1000000, 1)}

\* Years of retirement.
RetirementYears == Years \cup {FromInt(30)}

TvmInit ==
    /\ fn = "none"
    /\ args = <<>>
    /\ res = <<>>
    /\ origin = <<>>

\* Each calculator is a pure function: the caller makes one call and keeps the
\* arguments and the string returned.

CallCalculateDTI ==
    /\ fn = "none"
    /\ \E d \in Payments, inc \in Incomes :
        /\ args' = <<d, inc>>
        /\ res' = calculateDTI(d, inc)
    /\ fn' = "calculateDTI"
    /\ origin' = <<>>
    /\ UNCHANGED <<debtVars, sipVars>>

CallCalculateEMI ==
    /\ fn = "none"
    /\ \E p \in Amounts, r \in PercentRates, y \in Years :
        /\ args' = <<p, r, y>>
        /\ res' = calculateEMI(p, r, y)
    /\ fn' = "calculateEMI"
    /\ origin' = <<>>
    /\ UNCHANGED <<debtVars, sipVars>>

CallLumpSumReturns ==
    /\ fn = "none"
    /\ \E p \in Amounts, y \in Years, r \in Rates :
        /\ args' = <<p, y, r>>
        /\ res' = lumpSumReturns(p, y, r)
    /\ fn' = "lumpSumReturns"
    /\ origin' = <<>>
    /\ UNCHANGED <<debtVars, sipVars>>

CallLumpSumReturnsWithInflation ==
    /\ fn = "none"
    /\ \E p \in Amounts, y \in Years, r \in Rates, infl \in Inflations :
        /\ args' = <<p, y, r, infl>>
        /\ res' = lumpSumReturnsWithInflation(p, y, r, infl)
    /\ fn' = "lumpSumReturnsWithInflation"
    /\ origin' = <<>>
    /\ UNCHANGED <<debtVars, sipVars>>

CallFutureValueWithoutInflation ==
    /\ fn = "none"
    /\ \E p \in Amounts, y \in Years, r \in Rates :
        /\ args' = <<p, y, r>>
        /\ res' = futureValueWithoutInflation(p, y, r)
    /\ fn' = "futureValueWithoutInflation"
    /\ origin' = <<>>
    /\ UNCHANGED <<debtVars, sipVars>>

CallFutureValueWithInflation ==
    /\ fn = "none"
    /\ \E p \in Amounts, y \in Years, r \in Rates, infl \in Inflations :
        /\ args' = <<p, y, r, infl>>
        /\ res' = futureValueWithInflation(p, y, r, infl)
    /\ fn' = "futureValueWithInflation"
    /\ origin' = <<>>
    /\ UNCHANGED <<debtVars, sipVars>>

CallPresentValueWithoutInflation ==
    /\ fn = "none"
    /\ \E f \in Amounts, y \in Years, r \in Rates :
        /\ args' = <<f, y, r>>
        /\ res' = presentValueWithoutInflation(f, y, r)
    /\ fn' = "presentValueWithoutInflation"
    /\ origin' = <<>>
    /\ UNCHANGED <<debtVars, sipVars>>

CallPresentValueWithInflation ==
    /\ fn = "none"
    /\ \E f \in Amounts, y \in Years, r \in Rates, infl \in Inflations :
        /\ args' = <<f, y, r, infl>>
        /\ res' = presentValueWithInflation(f, y, r, infl)
    /\ fn' = "presentValueWithInflation"
    /\ origin' = <<>>
    /\ UNCHANGED <<debtVars, sipVars>>

\* The caller reads the string a future-value call returned as a Number and
\* discounts it over the same duration at the same rate.
DiscountFutureValue ==
    /\ fn = "futureValueWithoutInflation"
    /\ origin = <<>>
    /\ LET f == ToNumber(res) IN
       /\ args' = <<f, args[2], args[3]>>
       /\ res' = presentValueWithoutInflation(f, args[2], args[3])
    /\ fn' = "presentValueWithoutInflation"
    /\ origin' = args
    /\ UNCHANGED <<debtVars, sipVars>>

CallRetirementSavingsGoal ==
    /\ fn = "none"
    /\ \E m \in Amounts, y \in Years, r \in PercentRates, c \in Amounts :
        /\ args' = <<m, y, r, c>>
        /\ res' = retirementSavingsGoal(m, y, r, c)
    /\ fn' = "retirementSavingsGoal"
    /\ origin' = <<>>
    /\ UNCHANGED <<debtVars, sipVars>>

CallSafeWithdrawalRate ==
    /\ fn = "none"
    /\ \E s \in Incomes, y \in RetirementYears, e \in Payments :
        /\ args' = <<s, y, e>>
        /\ res' = safeWithdrawalRate(s, y, e)
    /\ fn' = "safeWithdrawalRate"
    /\ origin' = <<>>
    /\ UNCHANGED <<debtVars, sipVars>>

TvmNext ==
    \/ CallCalculateDTI
    \/ CallCalculateEMI
    \/ CallLumpSumReturns
    \/ CallLumpSumReturnsWithInflation
    \/ CallFutureValueWithoutInflation
    \/ CallFutureValueWithInflation
    \/ CallPresentValueWithoutInflation
    \/ CallPresentValueWithInflation
    \/ DiscountFutureValue
    \/ CallRetirementSavingsGoal
    \/ CallSafeWithdrawalRate

-----------------------------------------------------------------------------
(* Debt ordering *)

\* A comparator that orders by balance, largest first.
snowballCompareDescending(a, b) == Sub(b.balance, a.balance)

\* A comparator that never answers "equal": -1 when a's balance is smaller, else 1.
snowballCompareNoTies(a, b) == IF Less(a.balance, b.balance) THEN FromInt(-1) ELSE One

\* The comparator of debtSnowball: (a, b) => a.balance - b.balance
snowballCompare(a, b) == Sub(a.balance, b.balance)

\* A comparator that reads the balance where the interest rate is meant.
avalancheCompareByBalance(a, b) == Sub(b.balance, a.balance)

\* A comparator that never answers "equal": -1 when a's rate is larger, else 1.
avalancheCompareNoTies(a, b) == IF Less(b.interestRate, a.interestRate) THEN FromInt(-1) ELSE One

\* The comparator of debtAvalanche: (a, b) => b.interestRate - a.interestRate
avalancheCompare(a, b) == Sub(b.interestRate, a.interestRate)

\* SortCompare of Array.prototype.sort: the comparator's result, NaN read as 0.
SortCompare(f, a, b) ==
    LET v == IF f = "debtSnowball" THEN snowballCompare(a, b) ELSE avalancheCompare(a, b)
    IN IF IsNaN(v) THEN Zero ELSE v

\* x put into the sorted sequence, behind every element that does not
\* compare greater than it.
RECURSIVE InsertSorted(_, _, _)
InsertSorted(f, sorted, x) ==
    IF sorted = <<>> THEN <<x>>
    ELSE LET last == sorted[Len(sorted)]
             front == SubSeq(sorted, 1, Len(sorted) - 1)
         IN IF Less(Zero, SortCompare(f, last, x))
            THEN Append(InsertSorted(f, front, x), last)
            ELSE Append(sorted, x)

\* Array.prototype.sort(comparefn): a stable sort.
RECURSIVE ArraySort(_, _)
ArraySort(f, seq) ==
    IF seq = <<>> THEN <<>>
    ELSE InsertSorted(f, ArraySort(f, SubSeq(seq, 1, Len(seq) - 1)), seq[Len(seq)])

\* An ordering that sorts a copy and leaves the caller's array as it was.
debtSnowballCopy(heap, ref) ==
    [heap |-> heap @@ (ref + 1 :> ArraySort("debtSnowball", heap[ref])), ret |-> ref + 1]

\* debtSnowball(debts), on the heap: the heap after the call and the reference returned.
debtSnowball(heap, ref) ==
    [heap |-> [heap EXCEPT ![ref] = ArraySort("debtSnowball", heap[ref])], ret |-> ref]

\* debtAvalanche(debts), on the heap.
debtAvalanche(heap, ref) ==
    [heap |-> [heap EXCEPT ![ref] = ArraySort("debtAvalanche", heap[ref])], ret |-> ref]

Debt(name, balance, interestRate) ==
    [name |-> name, balance |-> balance, interestRate |-> interestRate]

\* The debts a caller lists.
DebtRecords ==
    { Debt("A", FromInt(5000), Lit(18, 100)),
      Debt("B", FromInt(2500), Lit(12, 100)),
      Debt("C", FromInt(10000), Lit(6, 100)),
      Debt("D", FromInt(2500), Lit(18, 100)),
      Debt("E", FromInt(5000), Lit(6, 100)),
      Debt("F", FromInt(0), Lit(12, 100)) }

RECURSIVE SeqsUpTo(_, _)
SeqsUpTo(S, n) ==
    IF n = 0 THEN {<<>>}
    ELSE LET shorter == SeqsUpTo(S, n - 1)
         IN shorter \cup {Append(q, x) : q \in {t \in shorter : Len(t) = n - 1}, x \in S}

DebtInit ==
    /\ \E list \in SeqsUpTo(DebtRecords, MaxDebts) :
        /\ arrays = (1 :> list)
        /\ before = list
    /\ debts = 1
    /\ returned = 0
    /\ sorter = "none"

\* The caller holds an empty list and orders nothing.
DebtInitIdle ==
    /\ arrays = (1 :> <<>>)
    /\ before = <<>>
    /\ debts = 1
    /\ returned = 0
    /\ sorter = "none"

CallDebtSnowball ==
    LET out == debtSnowball(arrays, debts) IN
    /\ before' = arrays[debts]
    /\ arrays' = out.heap
    /\ returned' = out.ret
    /\ sorter' = "debtSnowball"
    /\ debts' = debts
    /\ UNCHANGED <<tvmVars, sipVars>>

CallDebtAvalanche ==
    LET out == debtAvalanche(arrays, debts) IN
    /\ before' = arrays[debts]
    /\ arrays' = out.heap
    /\ returned' = out.ret
    /\ sorter' = "debtAvalanche"
    /\ debts' = debts
    /\ UNCHANGED <<tvmVars, sipVars>>

DebtNext ==
    \/ CallDebtSnowball
    \/ CallDebtAvalanche

-----------------------------------------------------------------------------
(* Systematic investment plans: the loops of sipReturns and sipReturnsWithInflation *)

\* A period that compounds first and adds the contribution after.
sipReturnsCompoundFirst(total, monthlyPayment, expectedRoi) ==
    Add(Mul(total, Add(One, Div(expectedRoi, Twelve))), monthlyPayment)

\* One period of sipReturns: the contribution, then a month of growth.
sipReturnsPeriod(total, monthlyPayment, expectedRoi) ==
    Mul(Add(total, monthlyPayment), Add(One, Div(expectedRoi, Twelve)))

\* One period of sipReturnsWithInflation.
sipReturnsWithInflationPeriod(total, monthlyPayment, expectedRoi, inflationRate) ==
    Mul(Add(total, monthlyPayment), Add(One, Div(Sub(expectedRoi, inflationRate), Twelve)))

\* Durations in months: whole, fractional and negative.
Months == {FromInt(n) : n \in 0..MaxMonths} \cup {Lit(5, 2), Lit(-1, 1)}

SipRates == {Lit(0, 1), Lit(8, 100), Lit(12, 100), Lit(-6, 100)}

SipPayments == {Lit(0, 1), Lit(1, 1), Lit(5, 2)}

SipInit ==
    /\ pc = "idle"
    /\ i = 0
    /\ totalAmount = Zero
    /\ sipFn = "none"
    /\ sipArgs = <<>>
    /\ sipRes = <<>>

\* sipReturns is called: let totalAmount = 0; let i = 0
CallSipReturns ==
    /\ pc \in {"idle", "done"}
    /\ \E pmt \in SipPayments, months \in Months, roi \in SipRates :
        sipArgs' = <<pmt, months, roi>>
    /\ sipFn' = "sipReturns"
    /\ pc' = "loop"
    /\ i' = 0
    /\ totalAmount' = Zero
    /\ sipRes' = <<>>
    /\ UNCHANGED <<tvmVars, debtVars>>

\* sipReturnsWithInflation is called, inflationRate given or left out.
CallSipReturnsWithInflation ==
    /\ pc \in {"idle", "done"}
    /\ \E pmt \in SipPayments, months \in Months, roi \in SipRates, infl \in Inflations :
        sipArgs' = <<pmt, months, roi, DefaultArg(infl, DefaultInflation)>>
    /\ sipFn' = "sipReturnsWithInflation"
    /\ pc' = "loop"
    /\ i' = 0
    /\ totalAmount' = Zero
    /\ sipRes' = <<>>
    /\ UNCHANGED <<tvmVars, debtVars>>

\* i < months: one pass of the loop of sipReturns
SipReturnsIteration ==
    /\ pc = "loop"
    /\ sipFn = "sipReturns"
    /\ Less(FromInt(i), sipArgs[2])
    /\ totalAmount' = sipReturnsPeriod(totalAmount, sipArgs[1], sipArgs[3])
    /\ i' = i + 1
    /\ UNCHANGED <<pc, sipFn, sipArgs, sipRes>>
    /\ UNCHANGED <<tvmVars, debtVars>>

\* i < months: one pass of the loop of sipReturnsWithInflation
SipReturnsWithInflationIteration ==
    /\ pc = "loop"
    /\ sipFn = "sipReturnsWithInflation"
    /\ Less(FromInt(i), sipArgs[2])
    /\ totalAmount' = sipReturnsWithInflationPeriod(totalAmount, sipArgs[1],
                                                     sipArgs[3], sipArgs[4])
    /\ i' = i + 1
    /\ UNCHANGED <<pc, sipFn, sipArgs, sipRes>>
    /\ UNCHANGED <<tvmVars, debtVars>>

\* The loop is left: return totalAmount.toFixed(2)
SipReturn ==
    /\ pc = "loop"
    /\ ~Less(FromInt(i), sipArgs[2])
    /\ sipRes' = ToFixed2(totalAmount)
    /\ pc' = "done"
    /\ UNCHANGED <<i, totalAmount, sipFn, sipArgs>>
    /\ UNCHANGED <<tvmVars, debtVars>>

SipNext ==
    \/ CallSipReturns
    \/ CallSipReturnsWithInflation
    \/ SipReturnsIteration
    \/ SipReturnsWithInflationIteration
    \/ SipReturn

-----------------------------------------------------------------------------
(* Specifications *)

\* Calls of the calculators; no ordering call and no SIP call is made.
Init == TvmInit /\ DebtInitIdle /\ SipInit

Next == TvmNext

Spec == Init /\ [][Next]_vars

\* Calls of the two ordering functions on a caller's list.
DebtSpecInit == TvmInit /\ DebtInit /\ SipInit

DebtSpec == DebtSpecInit /\ [][DebtNext]_vars

\* Calls of the two SIP functions; a call that was made runs to its return.
SipSpecInit == TvmInit /\ DebtInitIdle /\ SipInit

SipFairness ==
    /\ WF_vars(SipReturnsIteration)
    /\ WF_vars(SipReturnsWithInflationIteration)
    /\ WF_vars(SipReturn)

SipSpec == SipSpecInit /\ [][SipNext]_vars /\ SipFairness

-----------------------------------------------------------------------------
(* Properties of the ordering functions (DebtSpec) *)

Count(x, seq) == Cardinality({j \in 1..Len(seq) : seq[j] = x})

Elements(seq) == {seq[j] : j \in 1..Len(seq)}

\* a and b hold the same records, each as often.
SameRecords(a, b) ==
    /\ Len(a) = Len(b)
    /\ \A x \in Elements(a) \cup Elements(b) : Count(x, a) = Count(x, b)

AscendingByBalance(seq) ==
    \A j \in 1..(Len(seq) - 1) : LessEq(seq[j].balance, seq[j + 1].balance)

DescendingByRate(seq) ==
    \A j \in 1..(Len(seq) - 1) : LessEq(seq[j + 1].interestRate, seq[j].interestRate)

\* The sequence the last ordering call returned.
Result == arrays[returned]

WithoutBalance(seq) == [j \in 1..Len(seq) |-> [seq[j] EXCEPT !.balance = Zero]]

\* C1: debtSnowball returns a permutation of its input in which every adjacent
\* pair has balance[j] <= balance[j+1]; the empty list gives the empty list.
C1_SnowballAscendingPermutation ==
    sorter = "debtSnowball" =>
        /\ SameRecords(Result, before)
        /\ AscendingByBalance(Result)
        /\ (before = <<>> => Result = <<>>)

C1_Witness ==
    /\ sorter = "debtSnowball"
    /\ before = << Debt("A", FromInt(5000), Lit(18, 100)),
                   Debt("B", FromInt(2500), Lit(12, 100)),
                   Debt("C", FromInt(10000), Lit(6, 100)) >>
    /\ Result = << Debt("B", FromInt(2500), Lit(12, 100)),
                   Debt("A", FromInt(5000), Lit(18, 100)),
                   Debt("C", FromInt(10000), Lit(6, 100)) >>

\* C2: debtAvalanche returns a permutation of its input in which every adjacent
\* pair has interestRate[j] >= interestRate[j+1], and the order is the one the
\* same list gets with every balance blanked: balance plays no part in it.
C2_AvalancheDescendingPermutation ==
    sorter = "debtAvalanche" =>
        /\ SameRecords(Result, before)
        /\ DescendingByRate(Result)
        /\ WithoutBalance(Result) = ArraySort("debtAvalanche", WithoutBalance(before))

C2_Witness ==
    /\ sorter = "debtAvalanche"
    /\ before = << Debt("C", FromInt(10000), Lit(6, 100)),
                   Debt("B", FromInt(2500), Lit(12, 100)),
                   Debt("A", FromInt(5000), Lit(18, 100)) >>
    /\ Result = << Debt("A", FromInt(5000), Lit(18, 100)),
                   Debt("B", FromInt(2500), Lit(12, 100)),
                   Debt("C", FromInt(10000), Lit(6, 100)) >>

\* The records of seq whose balance is that of x, in the order of seq.
WithBalanceOf(x, seq) == SelectSeq(seq, LAMBDA d : d.balance = x.balance)

WithRateOf(x, seq) == SelectSeq(seq, LAMBDA d : d.interestRate = x.interestRate)

\* C3: both orderings are stable: records with equal sort key (balance for
\* snowball, interestRate for avalanche) leave in the order they came in.
C3_OrderingsStable ==
    /\ sorter = "debtSnowball" =>
           \A x \in Elements(before) : WithBalanceOf(x, Result) = WithBalanceOf(x, before)
    /\ sorter = "debtAvalanche" =>
           \A x \in Elements(before) : WithRateOf(x, Result) = WithRateOf(x, before)

\* Two records with equal balance, listed after one with a larger balance.
C3_Witness ==
    /\ sorter = "debtSnowball"
    /\ before = << Debt("C", FromInt(10000), Lit(6, 100)),
                   Debt("E", FromInt(5000), Lit(6, 100)),
                   Debt("A", FromInt(5000), Lit(18, 100)) >>
    /\ Result = << Debt("E", FromInt(5000), Lit(6, 100)),
                   Debt("A", FromInt(5000), Lit(18, 100)),
                   Debt("C", FromInt(10000), Lit(6, 100)) >>

\* C4: sorting is idempotent: debtSnowball on a list already ascending by
\* balance, and debtAvalanche on a list already descending by interestRate,
\* return the list in exactly the same order, equal keys included.
C4_SortedListUnchanged ==
    /\ (sorter = "debtSnowball" /\ AscendingByBalance(before)) => Result = before
    /\ (sorter = "debtAvalanche" /\ DescendingByRate(before)) => Result = before

\* A list already descending by rate, two of its records at the same rate.
C4_Witness ==
    /\ sorter = "debtAvalanche"
    /\ before = << Debt("A", FromInt(5000), Lit(18, 100)),
                   Debt("D", FromInt(2500), Lit(18, 100)),
                   Debt("B", FromInt(2500), Lit(12, 100)) >>
    /\ Result = before

\* C5: the orderings sort in place: the value returned is the caller's own
\* array, no other array exists, and the caller's array holds the sorted
\* order with its length and every record of it unchanged.
C5_SortsInPlace ==
    sorter # "none" =>
        /\ returned = debts
        /\ DOMAIN arrays = {debts}
        /\ Len(arrays[debts]) = Len(before)
        /\ SameRecords(arrays[debts], before)
        /\ sorter = "debtSnowball" => AscendingByBalance(arrays[debts])
        /\ sorter = "debtAvalanche" => DescendingByRate(arrays[debts])

\* The caller's own array changed order under the call.
C5_Witness ==
    /\ sorter = "debtSnowball"
    /\ returned = debts
    /\ before = << Debt("A", FromInt(5000), Lit(18, 100)),
                   Debt("F", FromInt(0), Lit(12, 100)) >>
    /\ arrays[debts] = << Debt("F", FromInt(0), Lit(12, 100)),
                          Debt("A", FromInt(5000), Lit(18, 100)) >>

-----------------------------------------------------------------------------
(* Properties of the calculators (Spec) *)

\* The inflation rate a call used: the one given, or the default.
UsedInflation == DefaultArg(args[4], DefaultInflation)

\* The strings toFixed gives for a Number that is not finite.
NonFiniteStrings == {StrNaN, StrInfinity, StrNegInfinity}

\* The signed number of hundredths a string of toFixed(2) spells.
SignedHundredths(str) == IF str[1] = "-" THEN -DigitsValue(str) ELSE DigitsValue(str)

\* |str - x| <= 0.01, exactly, for a finite string and a finite Number x.
WithinOneCent(str, x) ==
    LET c == SignedHundredths(str)
        sh == IF x.e < 0 THEN -x.e ELSE 0
        up == IF x.e > 0 THEN x.e ELSE 0
        diff == c * 2^sh - 100 * x.s * x.m * 2^up
    IN /\ diff <= 2^sh
       /\ -diff <= 2^sh

\* C6: safeWithdrawalRate is annualExpenses / retirementSavings * 100 to two
\* decimals, whatever retirementYears is: any call with the same savings and
\* expenses gives the same string.
C6_SafeWithdrawalRateIgnoresYears ==
    fn = "safeWithdrawalRate" =>
        /\ res = ToFixed2(Mul(Div(args[3], args[1]), Hundred))
        /\ \A y \in RetirementYears : safeWithdrawalRate(args[1], y, args[3]) = res

\* safeWithdrawalRate(1000000, 30, 40000) is "4.00".
C6_Witness ==
    /\ fn = "safeWithdrawalRate"
    /\ args = <<FromInt(1000000), FromInt(30), FromInt(40000)>>
    /\ res = <<"4", ".", "0", "0">>

\* A caller's round trip: the principal, duration and rate of the future-value
\* call whose result the present-value call was given.
RoundTrip == fn = "presentValueWithoutInflation" /\ origin # <<>>

SameBase(r, infl) == Add(One, Sub(r, infl)) = Sub(Add(One, r), infl)

\* The parts of C8 that hold as stated: the lump-sum functions are the
\* future-value functions, and a call without inflationRate is a call with 0.06.
C8_SharedFormula ==
    /\ fn = "lumpSumReturns" =>
           res = futureValueWithoutInflation(args[1], args[2], args[3])
    /\ fn = "lumpSumReturnsWithInflation" =>
           /\ res = futureValueWithInflation(args[1], args[2], args[3], args[4])
           /\ args[4] = Undefined =>
                  res = lumpSumReturnsWithInflation(args[1], args[2], args[3], Lit(6, 100))
    /\ fn = "futureValueWithInflation" =>
           /\ res = lumpSumReturnsWithInflation(args[1], args[2], args[3], args[4])
           /\ args[4] = Undefined =>
                  res = futureValueWithInflation(args[1], args[2], args[3], Lit(6, 100))
    /\ (fn = "presentValueWithInflation" /\ args[4] = Undefined) =>
           res = presentValueWithInflation(args[1], args[2], args[3], Lit(6, 100))

\* C8 as stated: besides, every inflation variant called with (r, i) equals
\* the nominal variant called with the rate r - i.
C8_InflationVariantIsNominalAtDifference ==
    /\ C8_SharedFormula
    /\ fn = "lumpSumReturnsWithInflation" =>
           res = lumpSumReturns(args[1], args[2], Sub(args[3], UsedInflation))
    /\ fn = "futureValueWithInflation" =>
           res = futureValueWithoutInflation(args[1], args[2], Sub(args[3], UsedInflation))
    /\ fn = "presentValueWithInflation" =>
           res = presentValueWithoutInflation(args[1], args[2], Sub(args[3], UsedInflation))

\* C8, amended: an inflation variant called with (r, i) equals the nominal
\* variant called with r - i whenever 1 + (r - i) and (1 + r) - i are the same
\* Number.
C8_InflationVariantIsNominalAtSameBase ==
    /\ C8_SharedFormula
    /\ (fn = "lumpSumReturnsWithInflation" /\ SameBase(args[3], UsedInflation)) =>
           res = lumpSumReturns(args[1], args[2], Sub(args[3], UsedInflation))
    /\ (fn = "futureValueWithInflation" /\ SameBase(args[3], UsedInflation)) =>
           res = futureValueWithoutInflation(args[1], args[2], Sub(args[3], UsedInflation))
    /\ (fn = "presentValueWithInflation" /\ SameBase(args[3], UsedInflation)) =>
           res = presentValueWithoutInflation(args[1], args[2], Sub(args[3], UsedInflation))

\* A call that leaves inflationRate out, at a rate for which the bases agree,
\* over a duration and an amount that make the result depend on the base.
C8_Witness ==
    /\ fn = "futureValueWithInflation"
    /\ args[4] = Undefined
    /\ SameBase(args[3], DefaultInflation)
    /\ args[3] # DefaultInflation
    /\ args[2] = FromInt(MaxYears)
    /\ res # ToFixed2(args[1])

\* C10: a zero denominator shows in the result: calculateDTI at income 0,
\* calculateEMI at rate 0, retirementSavingsGoal at rate 0 and
\* safeWithdrawalRate at savings 0 return "NaN", "Infinity" or "-Infinity",
\* never a two-decimal amount; calculateEMI does not return P/n and
\* retirementSavingsGoal does not return pmt * n - currentSavings.
C10_ZeroDenominatorPropagates ==
    /\ (fn = "calculateDTI" /\ IsZero(args[2])) => res \in NonFiniteStrings
    /\ (fn = "calculateEMI" /\ IsZero(args[2])) =>
           /\ res \in NonFiniteStrings
           /\ LET straightLine == Div(args[1], Mul(args[3], Twelve))
              IN IsFinite(straightLine) => res # ToFixed2(straightLine)
    /\ (fn = "retirementSavingsGoal" /\ IsZero(args[3])) =>
           /\ res \in NonFiniteStrings
           /\ res # ToFixed2(Sub(Mul(args[1], Mul(args[2], Twelve)), args[4]))
    /\ (fn = "safeWithdrawalRate" /\ IsZero(args[1])) => res \in NonFiniteStrings

\* A loan of 2 over 3 years at rate 0: "NaN", where P/n is a finite amount.
C10_Witness ==
    /\ fn = "calculateEMI"
    /\ args = <<FromInt(2), FromInt(0), FromInt(3)>>
    /\ res = StrNaN

-----------------------------------------------------------------------------
(* Properties of the SIP functions (SipSpec) *)

\* The monthly growth factor of the running call: 1 + roi / 12, or
\* 1 + (roi - inflationRate) / 12.
MonthlyGrowth ==
    IF sipFn = "sipReturns"
    THEN Add(One, Div(sipArgs[3], Twelve))
    ELSE Add(One, Div(Sub(sipArgs[3], sipArgs[4]), Twelve))

\* T_0 = 0, T_k = (T_(k-1) + pmt) * growth
RECURSIVE SipTotal(_, _, _)
SipTotal(k, pmt, growth) ==
    IF k = 0 THEN Zero ELSE Mul(Add(SipTotal(k - 1, pmt, growth), pmt), growth)

\* A call with a whole number of months >= 0 is running or has returned.
WholeMonthsCall == pc \in {"loop", "done"} /\ IsNatural(sipArgs[2])

C9_Recurrence ==
    WholeMonthsCall =>
        /\ i <= IntVal(sipArgs[2])
        /\ totalAmount = SipTotal(i, sipArgs[1], MonthlyGrowth)
        /\ pc = "done" =>
               /\ i = IntVal(sipArgs[2])
               /\ sipRes = ToFixed2(SipTotal(IntVal(sipArgs[2]), sipArgs[1], MonthlyGrowth))
               /\ IsZero(sipArgs[2]) => sipRes = <<"0", ".", "0", "0">>
               /\ sipArgs[2] = One => sipRes = ToFixed2(Mul(sipArgs[1], MonthlyGrowth))

====
